---- MODULE Spec2Model ----
(***************************************************************************)
(* Telephone game backend (backend/main.py, services/asr.py,               *)
(* services/tts.py): one request, from its arrival at an entry point to    *)
(* the end of the event stream produced by _run_telephone_stream.          *)
(*                                                                         *)
(* _run_telephone_stream is an async generator: calling it only creates    *)
(* the generator object; its body runs when the consumer pulls, one        *)
(* segment (from one yield to the next) per pull.  Each segment is one     *)
(* action here.  A backend "fails" when it raises an exception of class    *)
(* Exception, which is what the handlers of the generator catch; it may    *)
(* also raise a BaseException that is no Exception (KeyboardInterrupt,     *)
(* SystemExit), which they do not catch.  The adapter constructors and     *)
(* the read of the upload are taken to succeed.                            *)
(*                                                                         *)
(* PairSpec runs two generators on one event loop: the variables of the    *)
(* request hold the run that is executing, other holds the suspended one,  *)
(* and Switch passes control between them at a suspension point.           *)
(***************************************************************************)
EXTENDS Integers, Sequences, FiniteSets, TLC

VARIABLES
    req,            \* the request as received by the entry point
    response,       \* what the entry point did with it
    detail,         \* detail of the rejection, when rejected
    args,           \* arguments bound to the generator
    pc,             \* position of the generator
    raised,         \* exception that escaped the generator body
    asr, tts,       \* backends resolved by the generator (registry keys)
    current_text,   \* local current_text
    child_index,    \* loop variable
    audio_bytes,    \* local audio_bytes
    events,         \* frames yielded so far, in order
    calls,          \* synthesize / transcribe calls made by the generator
    factory_log,    \* adapter instantiations, in order
    intake_calls,   \* transcribe calls made by the form endpoint
    heard,          \* text the form endpoint got from the uploaded audio
    consumer,       \* whoever iterates the generator: none, pulling, gone
    backend_exc,    \* the exception a backend call of the run raised
    tmp_files,      \* temporary files of transcribe that exist (process-wide)
    registry,       \* the tables ASR_MODELS and TTS_MODELS (process-wide)
    active,         \* which of two runs the request variables hold
    other           \* the request variables of the suspended run

vars == << req, response, detail, args, pc, raised, asr, tts, current_text,
           child_index, audio_bytes, events, calls, factory_log, intake_calls,
           heard, consumer, backend_exc, tmp_files, registry, active, other >>

\* what a step of one request never touches
shared == << registry, active, other >>

locals == << asr, tts, current_text, child_index, audio_bytes >>

(* ------------------------------ bounds -------------------------------- *)

\* longest text considered (characters)
MaxLen == 2

\* largest number of children a run is started with
MaxChildren == 2

(* ------------------------------ values -------------------------------- *)

Chars == {" ", "a"}

Whitespace == {" "}

\* a text is a sequence of characters
Texts == UNION { [1..n -> Chars] : n \in 0..MaxLen }

\* Python's None, a value that is no text
None == << "None" >>

\* WAV payloads a TTS backend can return
Audios == {"wav1", "wav2"}

\* texts of the exceptions a backend can raise
Messages == {"e1", "e2"}

ASR_MODELS == {"whisper"}

TTS_MODELS == {"chatterbox", "chatterbox-turbo"}

\* keys a caller may send: the registered ones and one that is not
AsrKeys == ASR_MODELS \cup {"nonexistent-model"}

TtsKeys == TTS_MODELS \cup {"nonexistent-model"}

\* GameParams.num_children: Field(ge=1, le=20)
NumChildrenGe == 1

NumChildrenLe == 20

\* num_children values a caller may send
ChildCounts == (-1)..MaxChildren

(* --------------------------- pure functions --------------------------- *)

RECURSIVE LStrip(_)
LStrip(s) ==
    IF s = << >> THEN << >>
    ELSE IF Head(s) \in Whitespace THEN LStrip(Tail(s))
    ELSE s

RECURSIVE RStrip(_)
RStrip(s) ==
    IF s = << >> THEN << >>
    ELSE IF s[Len(s)] \in Whitespace THEN RStrip(SubSeq(s, 1, Len(s) - 1))
    ELSE s

\* mutant of Strip: only leading whitespace is stripped
StripLeftOnly(s) == LStrip(s)

\* mutant of Strip: nothing is stripped
StripNothing(s) == s

\* str.strip()
Strip(s) == RStrip(LStrip(s))

\* x or ""
OrEmpty(x) == IF x = None \/ x = << >> THEN << >> ELSE x

\* x or None
OrNone(x) == IF x = None \/ x = << >> THEN None ELSE x

\* truth value of an Optional[str]
Truthy(x) == x # None /\ x # << >>

\* base64.b64encode(audio_bytes).decode("ascii")
B64(a) == << "b64", a >>

\* LocalWhisperASRAdapter.transcribe, given the text field of the model's result
WhisperTranscribe(raw) == Strip(OrEmpty(raw))

\* results the whisper model can give in its "text" field
RawResults == Texts \cup {None}

\* _get_asr raises HTTPException(400) for this key
get_asr_raises(asr_model) == asr_model \notin registry.asr

\* mutant of get_tts_raises: an unregistered key is let through
get_tts_never_raises(tts_model) == FALSE

\* _get_tts raises HTTPException(400) for this key
get_tts_raises(tts_model) == tts_model \notin registry.tts

\* mutant of Range: one iteration too many
RangeOffByOne(n) == 0..n

\* range(n)
Range(n) == 0..(n - 1)

sse_message(data) == [frame |-> "data", data |-> data]

TtsEvent(i, text, audio) ==
    sse_message([type |-> "tts", child_index |-> i, text |-> text,
                 audio_base64 |-> B64(audio)])

SttEvent(i, text) ==
    sse_message([type |-> "stt", child_index |-> i, text |-> text])

\* mutant of ErrorEvent: both handlers report the stt stage
ErrorEventSttOnly(step, i, msg) ==
    sse_message([type |-> "error", step |-> "stt", child_index |-> i,
                 message |-> msg])

\* mutant of ErrorEvent: the text of the exception is not reported
ErrorEventNoMessage(step, i, msg) ==
    sse_message([type |-> "error", step |-> step, child_index |-> i,
                 message |-> "error"])

ErrorEvent(step, i, msg) ==
    sse_message([type |-> "error", step |-> step, child_index |-> i,
                 message |-> msg])

\* mutant of DoneEvent: the initial text is reported as the final text
DoneEventInitialText(text) ==
    sse_message([type |-> "done", final_text |-> Strip(args.initial_text)])

DoneEvent(text) ==
    sse_message([type |-> "done", final_text |-> text])

\* entry of the call log: tts.synthesize(text) made in iteration i
\* seen: the number of frames already handed to the consumer at the call
SynthesizeCall(i, text, outcome) ==
    [op |-> "synthesize", child_index |-> i, text |-> text, outcome |-> outcome,
     seen |-> Len(events)]

\* entry of the call log: asr.transcribe(audio, "audio/wav") made in iteration i
TranscribeCall(i, audio, outcome) ==
    [op |-> "transcribe", child_index |-> i, audio |-> audio,
     content_type |-> "audio/wav", outcome |-> outcome, seen |-> Len(events)]

\* classes of the exceptions a backend can raise: caught by "except
\* Exception" or not
ExcClasses == {"Exception", "BaseException"}

NoExc == [cls |-> "none", msg |-> "none"]

\* how a call of LocalWhisperASRAdapter.transcribe can end: the temporary
\* file cannot be created, the write fails, the model fails, or it returns
FailedExits == {"create", "write", "model"}

\* mutant of tmp_after_transcribe: the file is unlinked only on return
tmp_after_transcribe_no_finally(files, exit) ==
    IF exit = "create" THEN files
    ELSE IF exit = "returned" THEN (files + 1) - 1
    ELSE files + 1

\* temporary files that exist after a call of transcribe that ended by exit
tmp_after_transcribe(files, exit) ==
    IF exit = "create" THEN files
    ELSE LET opened == files + 1     \* NamedTemporaryFile(delete=False)
         IN  opened - 1              \* finally: os.unlink(f.name)

(* ------------------------------- Init --------------------------------- *)

NoReq == [entry |-> "none"]

NoArgs == [num_children |-> 0, asr_model |-> "", tts_model |-> "",
           initial_text |-> << >>]

\* the request variables before any request
NoRun ==
    [req |-> NoReq, response |-> "none", detail |-> "none", args |-> NoArgs,
     pc |-> "none", raised |-> "none", asr |-> "unset", tts |-> "unset",
     current_text |-> << >>, child_index |-> -1, audio_bytes |-> "unset",
     events |-> << >>, calls |-> << >>, factory_log |-> << >>,
     intake_calls |-> 0, heard |-> None, consumer |-> "none",
     backend_exc |-> NoExc]

Init ==
    /\ req = NoReq
    /\ response = "none"
    /\ detail = "none"
    /\ args = NoArgs
    /\ pc = "none"
    /\ raised = "none"
    /\ asr = "unset"
    /\ tts = "unset"
    /\ current_text = << >>
    /\ child_index = -1
    /\ audio_bytes = "unset"
    /\ events = << >>
    /\ calls = << >>
    /\ factory_log = << >>
    /\ intake_calls = 0
    /\ heard = None
    /\ consumer = "none"
    /\ backend_exc = NoExc
    /\ tmp_files = 0
    /\ registry = [asr |-> ASR_MODELS, tts |-> TTS_MODELS]
    /\ active = 1
    /\ other = NoRun

(* --------------------------- entry points ----------------------------- *)

\* the entry point raised before a response was started
Reject(r, d) ==
    /\ req' = r
    /\ response' = "rejected"
    /\ detail' = d
    /\ UNCHANGED << args, pc, raised, locals, events, calls, consumer >>

\* _run_telephone_stream(...) called: the generator object exists, its body
\* has not started
Create(r, resp, n, text) ==
    /\ req' = r
    /\ response' = resp
    /\ detail' = "none"
    /\ args' = [num_children |-> n, asr_model |-> r.asr_model,
                tts_model |-> r.tts_model, initial_text |-> text]
    /\ pc' = "created"
    /\ consumer' = "pulling"
    /\ UNCHANGED << raised, locals, events, calls >>

\* the entry point returned StreamingResponse(_run_telephone_stream(...))
Stream(r, n, text) == Create(r, "streaming", n, text)

\* POST /api/game/start/json
start_game_stream_json ==
    /\ req = NoReq
    /\ \E n \in ChildCounts \cup {NumChildrenLe + 1}, a \in AsrKeys,
          t \in TtsKeys, text \in Texts \cup {None} :
          LET r == [entry |-> "json", num_children |-> n, asr_model |-> a,
                    tts_model |-> t, text |-> text, audio |-> FALSE]
              initial_text == Strip(OrEmpty(text))
          IN  /\ IF n < NumChildrenGe \/ n > NumChildrenLe
                 THEN Reject(r, "422 num_children")
                 ELSE IF initial_text = << >>
                 THEN Reject(r, "400 Provide 'text' in body.")
                 ELSE Stream(r, n, initial_text)
              /\ UNCHANGED << factory_log, intake_calls, heard, backend_exc,
                              tmp_files, shared >>

\* POST /api/game/start
start_game_stream ==
    /\ req = NoReq
    /\ \E n \in ChildCounts, a \in AsrKeys, t \in TtsKeys,
          text \in Texts \cup {None}, audio \in BOOLEAN :
          LET r == [entry |-> "form", num_children |-> n, asr_model |-> a,
                    tts_model |-> t, text |-> text, audio |-> audio]
              initial_text == OrNone(Strip(OrEmpty(text)))
          IN  IF ~Truthy(initial_text) /\ ~audio
              THEN /\ Reject(r, "400 Provide either 'text' or 'audio' file.")
                   /\ UNCHANGED << factory_log, intake_calls, heard, tmp_files >>
              ELSE IF Truthy(initial_text) /\ audio
              THEN /\ Reject(r, "400 Provide either 'text' or 'audio', not both.")
                   /\ UNCHANGED << factory_log, intake_calls, heard, tmp_files >>
              ELSE IF audio
              THEN IF get_asr_raises(a)
                   THEN /\ Reject(r, "400 Unknown ASR model")
                        /\ UNCHANGED << factory_log, intake_calls, heard,
                                        tmp_files >>
                   ELSE /\ factory_log' =
                              Append(factory_log, << "asr", a, "endpoint" >>)
                        /\ intake_calls' = intake_calls + 1
                        /\ \/ \E exit \in FailedExits, cls \in ExcClasses :
                                 /\ Reject(r, IF cls = "Exception"
                                              THEN "400 ASR failed"
                                              ELSE "BaseException from transcribe")
                                 /\ tmp_files' =
                                       tmp_after_transcribe(tmp_files, exit)
                                 /\ heard' = heard
                           \/ \E raw \in RawResults :
                                 /\ tmp_files' =
                                       tmp_after_transcribe(tmp_files, "returned")
                                 /\ heard' = WhisperTranscribe(raw)
                                 /\ IF ~Truthy(heard')
                                    THEN Reject(r, "400 No speech detected in audio.")
                                    ELSE Stream(r, n, heard')
              ELSE /\ Stream(r, n, initial_text)
                   /\ UNCHANGED << factory_log, intake_calls, heard, tmp_files >>
    /\ UNCHANGED << backend_exc, shared >>

\* _run_telephone_stream called by code other than the two endpoints
direct_call ==
    /\ req = NoReq
    /\ \E n \in ChildCounts, a \in AsrKeys, t \in TtsKeys, text \in Texts :
          LET r == [entry |-> "direct", num_children |-> n, asr_model |-> a,
                    tts_model |-> t, text |-> text, audio |-> FALSE]
          IN  Create(r, "none", n, text)
    /\ UNCHANGED << factory_log, intake_calls, heard, backend_exc, tmp_files,
                    shared >>

(* --------------------- _run_telephone_stream body ---------------------- *)

\* an exception leaves the generator body before any backend call
Raise(exc) ==
    /\ pc' = "raised"
    /\ raised' = exc
    /\ UNCHANGED << events, calls, child_index, audio_bytes, backend_exc >>

\* mutant of Iterate: the recognition is done in the same segment as the
\* synthesis, before the tts frame is handed over
IterateBuffered(i, text) ==
    IF i \in Range(args.num_children)
    THEN \E a \in Audios, raw \in RawResults :
            /\ child_index' = i
            /\ calls' = calls \o << SynthesizeCall(i, text, "returned"),
                                   TranscribeCall(i, a, "returned") >>
            /\ audio_bytes' = a
            /\ events' = events \o << TtsEvent(i, text, a),
                                     SttEvent(i, WhisperTranscribe(raw)) >>
            /\ pc' = "at_stt"
            /\ UNCHANGED << raised, backend_exc >>
    ELSE /\ events' = Append(events, DoneEvent(text))
         /\ pc' = "at_done"
         /\ UNCHANGED << calls, child_index, audio_bytes, raised, backend_exc >>

\* the for statement with child_index taking value i and current_text = text:
\* either the loop body up to its first yield, or the code after the loop
Iterate(i, text) ==
    IF i \in Range(args.num_children)
    THEN /\ child_index' = i
         /\ \/ \E a \in Audios :
                  /\ calls' = Append(calls, SynthesizeCall(i, text, "returned"))
                  /\ audio_bytes' = a
                  /\ events' = Append(events, TtsEvent(i, text, a))
                  /\ pc' = "at_tts"
                  /\ UNCHANGED << raised, backend_exc >>
            \/ \E m \in Messages :
                  /\ calls' = Append(calls, SynthesizeCall(i, text, "raised"))
                  /\ backend_exc' = [cls |-> "Exception", msg |-> m]
                  /\ audio_bytes' = audio_bytes
                  /\ events' = Append(events, ErrorEvent("tts", i, m))
                  /\ pc' = "at_error"
                  /\ UNCHANGED raised
            \/ \E m \in Messages :
                  /\ calls' = Append(calls, SynthesizeCall(i, text,
                                                          "raised BaseException"))
                  /\ backend_exc' = [cls |-> "BaseException", msg |-> m]
                  /\ pc' = "raised"
                  /\ raised' = "BaseException from synthesize"
                  /\ UNCHANGED << audio_bytes, events >>
    ELSE /\ events' = Append(events, DoneEvent(text))
         /\ pc' = "at_done"
         /\ UNCHANGED << calls, child_index, audio_bytes, raised, backend_exc >>

\* first pull: from the top of the body to the first yield
GenStart ==
    /\ pc = "created"
    /\ IF get_asr_raises(args.asr_model)
       THEN /\ Raise("HTTPException 400 Unknown ASR model")
            /\ UNCHANGED << asr, tts, current_text, factory_log >>
       ELSE IF get_tts_raises(args.tts_model)
       THEN /\ Raise("HTTPException 400 Unknown TTS model")
            /\ asr' = args.asr_model
            /\ factory_log' =
                  Append(factory_log, << "asr", args.asr_model, "run" >>)
            /\ UNCHANGED << tts, current_text >>
       ELSE /\ asr' = args.asr_model
            /\ tts' = args.tts_model
            /\ factory_log' =
                  factory_log \o << << "asr", args.asr_model, "run" >>,
                                    << "tts", args.tts_model, "run" >> >>
            /\ current_text' = Strip(args.initial_text)
            /\ IF current_text' = << >>
               THEN Raise("ValueError Initial text is empty")
               ELSE Iterate(0, current_text')
    /\ UNCHANGED << req, response, detail, args, intake_calls, heard, consumer,
                    tmp_files, shared >>

\* mutant of GenAfterTts: no return after the error frame of a failed
\* transcribe, the loop goes on
GenAfterTtsNoReturn ==
    /\ pc = "at_tts"
    /\ \/ \E raw \in RawResults :
             /\ calls' = Append(calls, TranscribeCall(child_index, audio_bytes,
                                                      "returned"))
             /\ current_text' = WhisperTranscribe(raw)
             /\ events' = Append(events, SttEvent(child_index, current_text'))
             /\ UNCHANGED backend_exc
       \/ \E m \in Messages :
             /\ calls' = Append(calls, TranscribeCall(child_index, audio_bytes,
                                                      "raised"))
             /\ backend_exc' = [cls |-> "Exception", msg |-> m]
             /\ current_text' = current_text
             /\ events' = Append(events, ErrorEvent("stt", child_index, m))
    /\ pc' = "at_stt"
    /\ UNCHANGED << req, response, detail, args, raised, asr, tts, child_index,
                    audio_bytes, factory_log, intake_calls, heard, consumer,
                    tmp_files, shared >>

\* pull after a tts frame: transcribe, then yield stt or error
GenAfterTts ==
    /\ pc = "at_tts"
    /\ \/ \E raw \in RawResults :
             /\ calls' = Append(calls, TranscribeCall(child_index, audio_bytes,
                                                      "returned"))
             /\ tmp_files' = tmp_after_transcribe(tmp_files, "returned")
             /\ current_text' = WhisperTranscribe(raw)
             /\ events' = Append(events, SttEvent(child_index, current_text'))
             /\ pc' = "at_stt"
             /\ UNCHANGED << raised, backend_exc >>
       \/ \E m \in Messages, exit \in FailedExits :
             /\ calls' = Append(calls, TranscribeCall(child_index, audio_bytes,
                                                      "raised"))
             /\ tmp_files' = tmp_after_transcribe(tmp_files, exit)
             /\ backend_exc' = [cls |-> "Exception", msg |-> m]
             /\ current_text' = current_text
             /\ events' = Append(events, ErrorEvent("stt", child_index, m))
             /\ pc' = "at_error"
             /\ UNCHANGED raised
       \/ \E m \in Messages, exit \in FailedExits :
             /\ calls' = Append(calls, TranscribeCall(child_index, audio_bytes,
                                                      "raised BaseException"))
             /\ tmp_files' = tmp_after_transcribe(tmp_files, exit)
             /\ backend_exc' = [cls |-> "BaseException", msg |-> m]
             /\ pc' = "raised"
             /\ raised' = "BaseException from transcribe"
             /\ UNCHANGED << current_text, events >>
    /\ UNCHANGED << req, response, detail, args, asr, tts, child_index,
                    audio_bytes, factory_log, intake_calls, heard, consumer,
                    shared >>

\* mutant of GenAfterStt: a step is skipped
GenAfterSttSkip ==
    /\ pc = "at_stt"
    /\ Iterate(child_index + 2, current_text)
    /\ UNCHANGED << req, response, detail, args, asr, tts, current_text,
                    factory_log, intake_calls, heard, consumer, tmp_files,
                    shared >>

\* mutant of GenAfterStt: the backends are resolved again for each child
GenAfterSttReresolve ==
    /\ pc = "at_stt"
    /\ Iterate(child_index + 1, current_text)
    /\ factory_log' = factory_log \o << << "asr", args.asr_model, "run" >>,
                                        << "tts", args.tts_model, "run" >> >>
    /\ UNCHANGED << req, response, detail, args, asr, tts, current_text,
                    intake_calls, heard, consumer, tmp_files, shared >>

\* mutant of GenAfterStt: each child speaks the initial text
GenAfterSttInitialText ==
    /\ pc = "at_stt"
    /\ Iterate(child_index + 1, Strip(args.initial_text))
    /\ UNCHANGED << req, response, detail, args, asr, tts, current_text,
                    factory_log, intake_calls, heard, consumer, tmp_files,
                    shared >>

\* mutant of GenAfterStt: an empty recognition ends the chain
GenAfterSttStopsOnEmpty ==
    /\ pc = "at_stt"
    /\ IF current_text = << >>
       THEN Iterate(args.num_children, current_text)
       ELSE Iterate(child_index + 1, current_text)
    /\ UNCHANGED << req, response, detail, args, asr, tts, current_text,
                    factory_log, intake_calls, heard, consumer, tmp_files,
                    shared >>

\* pull after an stt frame: next iteration, or the code after the loop
GenAfterStt ==
    /\ pc = "at_stt"
    /\ Iterate(child_index + 1, current_text)
    /\ UNCHANGED << req, response, detail, args, asr, tts, current_text,
                    factory_log, intake_calls, heard, consumer, tmp_files,
                    shared >>

\* mutant of GenReturn: no return after an error frame, the loop goes on
GenReturnContinues ==
    /\ pc \in {"at_error", "at_done"}
    /\ IF pc = "at_error"
       THEN Iterate(child_index + 1, current_text)
       ELSE /\ pc' = "exhausted"
            /\ UNCHANGED << events, calls, child_index, audio_bytes, raised,
                            backend_exc >>
    /\ UNCHANGED << req, response, detail, args, asr, tts, current_text,
                    factory_log, intake_calls, heard, consumer, tmp_files,
                    shared >>

\* pull after an error frame (return) or after the done frame (end of body)
GenReturn ==
    /\ pc \in {"at_error", "at_done"}
    /\ pc' = "exhausted"
    /\ UNCHANGED << req, response, detail, args, raised, locals, events, calls,
                    factory_log, intake_calls, heard, consumer, backend_exc,
                    tmp_files, shared >>

\* mutant of Disconnect: the generator is not closed and is driven on
DisconnectLeavesRunning ==
    /\ pc \in {"created", "at_tts", "at_stt", "at_error", "at_done"}
    /\ consumer = "pulling"
    /\ consumer' = "gone"
    /\ UNCHANGED << req, response, detail, args, pc, raised, locals, events,
                    calls, factory_log, intake_calls, heard, backend_exc,
                    tmp_files, shared >>

\* the consumer goes away: the generator is closed where it is suspended
Disconnect ==
    /\ pc \in {"created", "at_tts", "at_stt", "at_error", "at_done"}
    /\ consumer = "pulling"
    /\ consumer' = "gone"
    /\ pc' = "closed"
    /\ UNCHANGED << req, response, detail, args, raised, locals, events, calls,
                    factory_log, intake_calls, heard, backend_exc, tmp_files,
                    shared >>

Next ==
    \/ start_game_stream_json
    \/ start_game_stream
    \/ direct_call
    \/ GenStart
    \/ GenAfterTts
    \/ GenAfterStt
    \/ GenReturn
    \/ Disconnect

\* a pull: the consumer resumes the generator
Pull == GenStart \/ GenAfterTts \/ GenAfterStt \/ GenReturn

Spec == Init /\ [][Next]_vars

\* the consumer keeps pulling while the generator can run, and every backend
\* call ends
LiveSpec == Init /\ [][Next]_vars /\ WF_vars(Pull)

(* ------------------------ two runs, one event loop --------------------- *)

\* the request variables of the run that is executing
Ctx ==
    [req |-> req, response |-> response, detail |-> detail, args |-> args,
     pc |-> pc, raised |-> raised, asr |-> asr, tts |-> tts,
     current_text |-> current_text, child_index |-> child_index,
     audio_bytes |-> audio_bytes, events |-> events, calls |-> calls,
     factory_log |-> factory_log, intake_calls |-> intake_calls,
     heard |-> heard, consumer |-> consumer, backend_exc |-> backend_exc]

\* the variables of Ctx other than current_text take the suspended run's values
ResumeOther ==
    /\ req' = other.req
    /\ response' = other.response
    /\ detail' = other.detail
    /\ args' = other.args
    /\ pc' = other.pc
    /\ raised' = other.raised
    /\ asr' = other.asr
    /\ tts' = other.tts
    /\ child_index' = other.child_index
    /\ audio_bytes' = other.audio_bytes
    /\ events' = other.events
    /\ calls' = other.calls
    /\ factory_log' = other.factory_log
    /\ intake_calls' = other.intake_calls
    /\ heard' = other.heard
    /\ consumer' = other.consumer
    /\ backend_exc' = other.backend_exc

\* mutant of Switch: current_text is one variable that both runs use
SwitchSharedText ==
    /\ active' = 3 - active
    /\ other' = Ctx
    /\ ResumeOther
    /\ UNCHANGED << current_text, tmp_files, registry >>

\* the event loop suspends the executing run between two segments and
\* resumes the other one: each generator keeps its own frame
Switch ==
    /\ active' = 3 - active
    /\ other' = Ctx
    /\ ResumeOther
    /\ current_text' = other.current_text
    /\ UNCHANGED << tmp_files, registry >>

\* a run started next to another one
pair_call ==
    /\ direct_call
    /\ req'.num_children \in {1, 2}
    /\ req'.asr_model = "whisper"
    /\ req'.tts_model = "chatterbox"
    /\ req'.text = << "a" >>

PairNext ==
    \/ pair_call
    \/ GenStart
    \/ GenAfterTts
    \/ GenAfterStt
    \/ GenReturn
    \/ Switch

PairSpec == Init /\ [][PairNext]_vars

(* ------------------------ reading the event log ------------------------ *)

\* the i-th event yielded (the dict given to _sse_message)
Ev(i) == events[i].data

IsTerminal(e) == e.type \in {"error", "done"}

IsTts(e, k) == e.type = "tts" /\ e.child_index = k

IsStt(e, k) == e.type = "stt" /\ e.child_index = k

\* the generator body ran to its end and the consumer saw the end
ConsumedToEnd == pc = "exhausted"

AllCallsReturned == \A j \in 1..Len(calls) : calls[j].outcome = "returned"

\* the initial message of the request, by entry path: the text given, or for
\* an upload the text the endpoint got from it
InitialMessage ==
    IF req.entry = "form" /\ req.audio THEN heard ELSE req.text

HasInitialMessage == req.entry # "none" /\ InitialMessage # None

\* empty or made of whitespace only
IsBlank(s) == \A i \in 1..Len(s) : s[i] \in Whitespace

\* what the validation at the top of the generator body raises
ValidationFailures ==
    {"HTTPException 400 Unknown ASR model",
     "HTTPException 400 Unknown TTS model",
     "ValueError Initial text is empty"}

(* ------------------------------- claims -------------------------------- *)

\* C1: a run with N >= 1 children that is consumed to the end and in which no
\* synthesize or transcribe call raised has yielded exactly 2N+1 events: for
\* k = 0..N-1 in order a tts event then an stt event with child_index k, and
\* a done event last.
C1_SuccessfulRunShape ==
    (ConsumedToEnd /\ args.num_children >= 1 /\ AllCallsReturned) =>
        LET N == args.num_children
        IN  /\ Len(events) = 2 * N + 1
            /\ \A k \in 0..(N - 1) :
                  /\ IsTts(Ev(2 * k + 1), k)
                  /\ IsStt(Ev(2 * k + 2), k)
            /\ Ev(2 * N + 1).type = "done"

C1_Witness ==
    /\ ConsumedToEnd
    /\ args.num_children = 2
    /\ AllCallsReturned
    /\ Len(events) = 5

\* C2: no event follows a terminal event (error or done), and a run that got
\* past validation and was consumed to the end has yielded exactly one
\* terminal event, its last event.
C2_OneTerminalEventLast ==
    /\ \A i \in 1..(Len(events) - 1) : ~IsTerminal(Ev(i))
    /\ ConsumedToEnd =>
          /\ Len(events) >= 1
          /\ IsTerminal(Ev(Len(events)))
          /\ Cardinality({i \in 1..Len(events) : IsTerminal(Ev(i))}) = 1

C2_Witness ==
    /\ ConsumedToEnd
    /\ Len(events) = 4
    /\ Ev(4).type = "error"

\* C3 as stated: when synthesis fails at step k, exactly 2k+1 events precede
\* the error event and no stt event of step k is emitted.
C3_AsStated ==
    \A i \in 1..Len(events) :
        (Ev(i).type = "error" /\ Ev(i).step = "tts") =>
            /\ i - 1 = 2 * Ev(i).child_index + 1
            /\ \A j \in 1..Len(events) : ~IsStt(Ev(j), Ev(i).child_index)

\* C3 amended: when the synthesize call of step k raised, exactly 2k events
\* precede the error event (it is event number 2k+1 and the last one), it
\* carries step "tts" and child_index k, and no stt event of step k exists.
C3_SynthesisFailure ==
    \A c \in 1..Len(calls) :
        (calls[c].op = "synthesize" /\ calls[c].outcome = "raised") =>
            LET k == calls[c].child_index
            IN  /\ Len(events) = 2 * k + 1
                /\ Ev(2 * k + 1).type = "error"
                /\ Ev(2 * k + 1).step = "tts"
                /\ Ev(2 * k + 1).child_index = k
                /\ \A j \in 1..Len(events) : ~IsStt(Ev(j), k)

C3_Witness ==
    /\ Len(calls) = 3
    /\ calls[3].op = "synthesize"
    /\ calls[3].outcome = "raised"
    /\ Len(events) = 3
    /\ pc = "exhausted"

\* C4: when the transcribe call of step k raised, the events are exactly the
\* tts/stt pairs of steps 0..k-1, the tts event of step k and an error event
\* with step "stt" and child_index k; that call is the last backend call.
C4_RecognitionFailure ==
    \A c \in 1..Len(calls) :
        (calls[c].op = "transcribe" /\ calls[c].outcome = "raised") =>
            LET k == calls[c].child_index
            IN  /\ Len(events) = 2 * k + 2
                /\ \A s \in 0..(k - 1) :
                      /\ IsTts(Ev(2 * s + 1), s)
                      /\ IsStt(Ev(2 * s + 2), s)
                /\ IsTts(Ev(2 * k + 1), k)
                /\ Ev(2 * k + 2).type = "error"
                /\ Ev(2 * k + 2).step = "stt"
                /\ Ev(2 * k + 2).child_index = k
                /\ c = Len(calls)
                /\ Len(calls) = 2 * k + 2

C4_Witness ==
    /\ args.num_children = 2
    /\ Len(calls) = 2
    /\ calls[2].op = "transcribe"
    /\ calls[2].outcome = "raised"
    /\ Len(events) = 2
    /\ pc = "exhausted"

\* C5: when a run with N >= 1 children has yielded done, the event before it
\* is the stt event of step N-1 and done's final_text is that event's text,
\* which is current_text.
C5_FinalTextIsLastStt ==
    \A i \in 1..Len(events) :
        (Ev(i).type = "done" /\ args.num_children >= 1) =>
            /\ i >= 2
            /\ IsStt(Ev(i - 1), args.num_children - 1)
            /\ Ev(i).final_text = Ev(i - 1).text
            /\ Ev(i).final_text = current_text

C5_Witness ==
    /\ Len(events) = 5
    /\ Ev(5).type = "done"
    /\ Ev(5).final_text # Ev(1).text

\* C6 as stated: no validation failure (empty message, unknown ASR or TTS key)
\* is raised after the endpoint has returned its StreamingResponse.
C6_ValidationBeforeStream ==
    ~(response = "streaming" /\ raised \in ValidationFailures)

\* C7: a run whose ASR or TTS key is not registered never yields an event and
\* never calls synthesize or transcribe; once its body has run it has ended
\* with the resolution failure.
C7_UnknownBackendNoEvents ==
    (req.entry # "none" /\
     (req.asr_model \notin ASR_MODELS \/ req.tts_model \notin TTS_MODELS)) =>
        /\ events = << >>
        /\ calls = << >>
        /\ pc \in {"none", "created", "raised", "closed"}
        /\ pc = "raised" =>
              raised \in {"HTTPException 400 Unknown ASR model",
                          "HTTPException 400 Unknown TTS model"}

C7_Witness ==
    /\ req.entry = "form"
    /\ req.audio
    /\ req.tts_model \notin TTS_MODELS
    /\ intake_calls = 1
    /\ pc = "raised"

\* C8: a run whose initial message is empty or whitespace-only never yields
\* an event and never calls synthesize or transcribe; the endpoints reject
\* it, and the generator called directly raises on its first pull.
C8_BlankMessageRejected ==
    (HasInitialMessage /\ IsBlank(InitialMessage)) =>
        /\ events = << >>
        /\ calls = << >>
        /\ req.entry \in {"json", "form"} => response = "rejected" /\ pc = "none"
        /\ req.entry = "direct" => pc \in {"created", "raised", "closed"}
        /\ pc = "raised" =>
              raised = IF req.asr_model \notin ASR_MODELS
                       THEN "HTTPException 400 Unknown ASR model"
                       ELSE IF req.tts_model \notin TTS_MODELS
                       THEN "HTTPException 400 Unknown TTS model"
                       ELSE "ValueError Initial text is empty"

C8_Witness ==
    /\ req.entry = "direct"
    /\ req.text = << " " >>
    /\ pc = "raised"
    /\ raised = "ValueError Initial text is empty"

\* C9 as stated: a run requested with num_children <= 0 never yields a done
\* event.
C9_NonPositiveCountRejected ==
    (req.entry # "none" /\ req.num_children <= 0) =>
        \A i \in 1..Len(events) : Ev(i).type # "done"

\* C10: the backend calls of a run are a prefix of synthesize(0),
\* transcribe(0), ..., synthesize(N-1), transcribe(N-1): the j-th call is for
\* step (j-1) div 2, synthesize when j is odd and transcribe when j is even,
\* and every call but the last has returned; a run consumed to the end with
\* every call returned has made all 2N calls (no step is skipped).
C10_CallsInStepOrder ==
    /\ Len(calls) <= 2 * args.num_children \/ calls = << >>
    /\ (ConsumedToEnd /\ AllCallsReturned /\ args.num_children >= 0) =>
          Len(calls) = 2 * args.num_children
    /\ \A j \in 1..Len(calls) :
          /\ calls[j].child_index = (j - 1) \div 2
          /\ calls[j].op = IF j % 2 = 1 THEN "synthesize" ELSE "transcribe"
          /\ j < Len(calls) => calls[j].outcome = "returned"

C10_Witness ==
    /\ Len(calls) = 2 * MaxChildren
    /\ args.num_children = MaxChildren
    /\ pc = "exhausted"

\* C11: every backend call is made in a segment that starts after the frame
\* yielded before it was handed to the consumer: the j-th call is made with
\* j-1 frames handed over, transcribe of step k after the tts frame of step
\* k, synthesize of step k+1 after the stt frame of step k; no frame is
\* produced ahead of the calls.
C11_IncrementalDelivery ==
    /\ \A j \in 1..Len(calls) :
          /\ calls[j].seen = j - 1
          /\ calls[j].op = "transcribe" =>
                IsTts(Ev(calls[j].seen), calls[j].child_index)
          /\ (calls[j].op = "synthesize" /\ calls[j].child_index >= 1) =>
                IsStt(Ev(calls[j].seen), calls[j].child_index - 1)
    /\ Len(events) <= Len(calls) + 1

C11_Witness ==
    /\ Len(calls) = 4
    /\ calls[4].op = "transcribe"
    /\ calls[4].seen = 3
    /\ pc = "at_stt"

\* C12: once the consumer has gone away, no step of the run makes a backend
\* call or yields a frame.
C12_NoWorkAfterDisconnect ==
    [][consumer = "gone" =>
         (calls' = calls /\ events' = events /\ consumer' = "gone")]_vars

C12_Witness ==
    /\ consumer = "gone"
    /\ pc = "closed"
    /\ args.num_children = 2
    /\ Len(calls) = 1
    /\ Len(events) = 1

\* C13 as stated, its part on finished runs: a run consumed to the end has
\* ended with a terminal event after at most 2N+1 events.
C13_TerminalWithinBound ==
    ConsumedToEnd =>
        /\ Len(events) >= 1
        /\ IsTerminal(Ev(Len(events)))
        /\ Len(events) <= 2 * args.num_children + 1

\* the run is over: nothing more is pulled from it
RunOver == pc \in {"exhausted", "raised", "closed"}

\* (with C13) a generator that was created comes to its end when the consumer
\* keeps pulling, and a run that is over stays as it is
TerminatesWhenPulled == (pc = "created") ~> RunOver

NeverResumed == [][RunOver => (pc' = pc /\ events' = events /\ calls' = calls)]_vars

\* the last backend call raised and the last event reports it
ErrorReported ==
    /\ Len(events) >= 1
    /\ Len(calls) >= 1
    /\ LET e == Ev(Len(events))
           c == calls[Len(calls)]
       IN  /\ e.type = "error"
           /\ e.step = IF c.op = "synthesize" THEN "tts" ELSE "stt"
           /\ e.child_index = c.child_index
           /\ e.message = backend_exc.msg
    /\ Cardinality({i \in 1..Len(events) : Ev(i).type = "error"}) = 1
    /\ raised = "none"

\* C14 as stated: an exception of any class raised by a backend call is
\* reported by exactly one error event and does not leave the generator.
C14_AnyClassReported ==
    backend_exc.cls # "none" => ErrorReported

\* C14 amended: an exception of class Exception raised by synthesize
\* (transcribe) at step k is reported by exactly one error event, the last
\* event, with step "tts" ("stt"), child_index k and the exception's text,
\* and does not leave the generator.
C14_ExceptionReported ==
    backend_exc.cls = "Exception" => ErrorReported

C14_Witness ==
    /\ backend_exc.cls = "Exception"
    /\ calls[Len(calls)].op = "transcribe"
    /\ calls[Len(calls)].child_index = 1
    /\ Ev(Len(events)).message = "e2"
    /\ pc = "exhausted"

\* C15: an stt frame of step k with empty text does not end the run: the
\* generator suspended after it can be resumed, and once it has gone on, for
\* k < N-1 its next backend call is synthesize of step k+1 on the empty text
\* (whose tts frame carries the empty text), and for k = N-1 the next frame
\* is done with empty final_text.
C15_EmptyRecognitionGoesOn ==
    \A i \in 1..Len(events) :
        (Ev(i).type = "stt" /\ Ev(i).text = << >>) =>
            LET k == Ev(i).child_index
            IN  /\ raised \notin ValidationFailures
                /\ (pc = "at_stt" /\ i = Len(events)) => ENABLED GenAfterStt
                /\ (Len(calls) > i \/ Len(events) > i) =>
                      IF k < args.num_children - 1
                      THEN /\ Len(calls) > i
                           /\ calls[i + 1].op = "synthesize"
                           /\ calls[i + 1].child_index = k + 1
                           /\ calls[i + 1].text = << >>
                           /\ Len(events) > i =>
                                 \/ /\ IsTts(Ev(i + 1), k + 1)
                                    /\ Ev(i + 1).text = << >>
                                 \/ /\ Ev(i + 1).type = "error"
                                    /\ Ev(i + 1).step = "tts"
                      ELSE /\ Len(events) > i
                           /\ Ev(i + 1).type = "done"
                           /\ Ev(i + 1).final_text = << >>

C15_Witness ==
    /\ Len(events) = 3
    /\ Ev(2).type = "stt"
    /\ Ev(2).text = << >>
    /\ IsTts(Ev(3), 1)
    /\ Ev(3).text = << >>

\* C16 as stated: synthesize is only ever called with a non-empty text.
C16_SynthesisTextNonEmpty ==
    \A j \in 1..Len(calls) :
        calls[j].op = "synthesize" => calls[j].text # << >>

\* C16 amended: synthesize is called at step 0 with a non-empty text that has
\* no surrounding whitespace (the stripped initial message), and at step
\* k >= 1 with the text recognized at step k-1, which may be empty.
C16_SynthesisTextChained ==
    \A j \in 1..Len(calls) :
        calls[j].op = "synthesize" =>
            LET t == calls[j].text
                k == calls[j].child_index
            IN  IF k = 0
                THEN /\ t # << >>
                     /\ Head(t) \notin Whitespace
                     /\ t[Len(t)] \notin Whitespace
                ELSE /\ IsStt(Ev(j - 1), k - 1)
                     /\ t = Ev(j - 1).text

C16_Witness ==
    /\ Len(calls) >= 3
    /\ calls[3].op = "synthesize"
    /\ calls[3].text = << >>
    /\ calls[1].text = << "a", "a" >>

\* instantiations of an adapter of this kind made by this caller
FactoryCalls(kind, where) ==
    {i \in 1..Len(factory_log) :
        factory_log[i][1] = kind /\ factory_log[i][3] = where}

\* C17 as stated: for every request each backend factory is invoked at most
\* once.
C17_OnceForRequest ==
    /\ Cardinality(FactoryCalls("asr", "run") \cup FactoryCalls("asr", "endpoint")) <= 1
    /\ Cardinality(FactoryCalls("tts", "run") \cup FactoryCalls("tts", "endpoint")) <= 1

C17_Resolution ==
    /\ Cardinality(FactoryCalls("asr", "run")) <= 1
    /\ Cardinality(FactoryCalls("tts", "run")) <= 1
    /\ FactoryCalls("tts", "endpoint") = {}
    /\ Cardinality(FactoryCalls("asr", "endpoint")) =
          IF intake_calls = 1 THEN 1 ELSE 0
    /\ intake_calls = 1 => req.entry = "form" /\ req.audio
    /\ (calls # << >> \/ events # << >>) =>
          /\ Cardinality(FactoryCalls("asr", "run")) = 1
          /\ Cardinality(FactoryCalls("tts", "run")) = 1
          /\ asr = args.asr_model
          /\ tts = args.tts_model

\* C17 amended: within a run each backend factory is invoked at most once,
\* before any step, and the resolved backends stay the same for every child;
\* a form request with an upload instantiates the ASR adapter once more, in
\* the endpoint, to transcribe the upload.
C17_OncePerRun ==
    /\ []C17_Resolution
    /\ [][calls # << >> =>
            (asr' = asr /\ tts' = tts /\ factory_log' = factory_log)]_vars

C17_Witness ==
    /\ req.entry = "form"
    /\ req.audio
    /\ Len(factory_log) = 3
    /\ Cardinality(FactoryCalls("asr", "endpoint")) = 1
    /\ Len(calls) = 4

\* C18: with two runs interleaved on one event loop, a step of the executing
\* run leaves every variable of the suspended run as it was, a switch hands
\* each run its own variables back unchanged, and the registry always holds
\* ASR_MODELS and TTS_MODELS as defined at start.
C18_RunsIndependent ==
    /\ [](registry = [asr |-> ASR_MODELS, tts |-> TTS_MODELS])
    /\ [][active' = active => other' = other]_vars
    /\ [][active' # active => (other' = Ctx /\ Ctx' = other)]_vars

C18_Witness ==
    /\ active = 2
    /\ Len(events) = 3
    /\ Len(other.events) = 2
    /\ other.pc = "at_stt"
    /\ current_text # other.current_text
    /\ args.num_children # other.args.num_children

\* C19: no temporary file of transcribe exists between the steps of a run or
\* after it, whichever way each call of transcribe ended.
C19_NoTemporaryFileLeft ==
    tmp_files = 0

C19_Witness ==
    /\ intake_calls = 1
    /\ Len(calls) = 2
    /\ calls[2].op = "transcribe"
    /\ calls[2].outcome = "raised"
    /\ tmp_files = 0

\* C20: the tts frame of step 0 carries the stripped initial message, the tts
\* frame of step k >= 1 carries the text of the stt frame of step k-1, each
\* synthesize call is made on the text its tts frame carries, and each
\* transcribe call of step k is made on the audio returned by synthesize at
\* step k (the audio of the tts frame of step k).
C20_StepLocalChain ==
    /\ \A i \in 1..Len(events) :
          Ev(i).type = "tts" =>
              /\ calls[i].op = "synthesize"
              /\ calls[i].text = Ev(i).text
              /\ IF Ev(i).child_index = 0
                 THEN /\ i = 1
                      /\ Ev(i).text = RStrip(LStrip(args.initial_text))
                 ELSE /\ IsStt(Ev(i - 1), Ev(i).child_index - 1)
                      /\ Ev(i).text = Ev(i - 1).text
    /\ \A j \in 1..Len(calls) :
          calls[j].op = "transcribe" =>
              /\ IsTts(Ev(j - 1), calls[j].child_index)
              /\ Ev(j - 1).audio_base64 = B64(calls[j].audio)

C20_Witness ==
    /\ Len(events) = 4
    /\ Ev(4).type = "stt"
    /\ Ev(1).text = << "a" >>
    /\ Ev(2).text = << "a", "a" >>
    /\ Ev(3).text = << "a", "a" >>
    /\ Ev(1).audio_base64 # Ev(3).audio_base64

====
